---- MODULE Spec2Model ----
(***************************************************************************)
(* ARR editor: the binary array codec (fileFormats/archive/array.ts over   *)
(* fileFormats/utils.ts) and the document commands of arrEditor.ts.        *)
(*                                                                         *)
(* Representation.  An entry is a record [type, value]; type is the tag of *)
(* the tagged record of array.ts ('int', 'string', 'bool', 'double'), or   *)
(* the typeof of the raw scalar of the later revision (bigint, string,     *)
(* boolean, number), or "undefined".  A string value is the sequence of    *)
(* its UTF-16 code units.  A double value is [m, e]: the IEEE-754 binary64 *)
(* number nearest to the decimal m / 10^e, which is what a decimal literal,*)
(* parseFloat and the division k / 10000 of the decoder all produce.       *)
(***************************************************************************)
EXTENDS Integers, Sequences, FiniteSets, TLC

\* ------------------------------------------------------------------ bounds
MaxLen == 2
MaxWords == 4
MaxTail == 3
MaxEdits == 1
MaxEntries == 3
MaxRemove == 2
MaxHistory == 2

\* --------------------------------------------------------------- constants
INT32_MAX == 2147483647
INT32_MIN == (-2147483647) - 1
MantissaBits == 53
FixedPointScale == 10000
OffsetCap == 1073741824

Min(a, b) == IF a < b THEN a ELSE b
Max(a, b) == IF a > b THEN a ELSE b
Abs(a) == IF a < 0 THEN 0 - a ELSE a

\* Body applied to the value of v, with v evaluated once
With(v, Body(_)) == CHOOSE r \in { Body(x) : x \in {v} } : TRUE

RECURSIVE Pow10(_)
Pow10(n) == IF n = 0 THEN 1 ELSE 10 * Pow10(n - 1)

\* ------------------------------------------------- IEEE-754 binary64 model
\* A magnitude too wide for a machine integer is a sequence of bits, most
\* significant first.

Pow2 == [i \in 0..30 |-> 2^i]

BitAt(n, i) == (n \div Pow2[i]) % 2

\* the bits of n, most significant first, without leading zeros
BitsOfNat(n) ==
    LET len == Cardinality({i \in 0..30 : Pow2[i] <= n})
    IN  [i \in 1..len |-> BitAt(n, len - i)]

\* the bits of n in exactly w places
BitsFixed(n, w) == [i \in 1..w |-> BitAt(n, w - i)]

Zeros(n) == [i \in 1..n |-> 0]

\* the number written by at most 8 bits
OctetOfBits(bs) ==
    LET b == Zeros(8 - Len(bs)) \o bs
    IN  128 * b[1] + 64 * b[2] + 32 * b[3] + 16 * b[4]
        + 8 * b[5] + 4 * b[6] + 2 * b[7] + b[8]

\* the number written by at most 31 bits
RECURSIVE NatOfBits(_)
NatOfBits(bs) ==
    IF Len(bs) <= 8 THEN OctetOfBits(bs)
    ELSE 256 * NatOfBits(SubSeq(bs, 1, Len(bs) - 8))
         + OctetOfBits(SubSeq(bs, Len(bs) - 7, Len(bs)))

\* bs + 1, one bit longer when the carry runs off the top
IncBits(bs) ==
    LET zs == {i \in 1..Len(bs) : bs[i] = 0}
    IN  IF zs = {} THEN <<1>> \o Zeros(Len(bs))
        ELSE LET p == CHOOSE i \in zs : \A j \in zs : j <= i
             IN  [i \in 1..Len(bs) |-> IF i < p THEN bs[i] ELSE IF i = p THEN 1 ELSE 0]

StripZeros(bs) ==
    LET ones == {i \in 1..Len(bs) : bs[i] = 1}
    IN  IF ones = {} THEN << >>
        ELSE SubSeq(bs, CHOOSE i \in ones : \A j \in ones : i <= j, Len(bs))

\* bs * k for a small k, schoolbook, eight bits at a time from the low end
RECURSIVE MulBitsRev(_, _, _)
MulBitsRev(bs, k, carry) ==
    IF bs = << >> THEN BitsOfNat(carry)
    ELSE LET cut == Max(Len(bs) - 8, 0)
             t   == OctetOfBits(SubSeq(bs, cut + 1, Len(bs))) * k + carry
         IN  MulBitsRev(SubSeq(bs, 1, cut), k, t \div Pow2[Len(bs) - cut])
             \o BitsFixed(t % Pow2[Len(bs) - cut], Len(bs) - cut)

MulBits(bs, k) == StripZeros(MulBitsRev(bs, k, 0))

\* Round a bit string to MantissaBits bits, to nearest, ties to even.
\* bs has no leading zero and more than MantissaBits bits; sticky tells that
\* nonzero bits follow bs.  Result: the mantissa, the number of bits dropped
\* from bs, and the direction of the rounding (-1 down, 0 exact, 1 up).
RoundBits(bs, sticky) ==
    LET keep  == SubSeq(bs, 1, MantissaBits)
        guard == bs[MantissaBits + 1]
        rest  == \E i \in (MantissaBits + 2)..Len(bs) : bs[i] = 1
        st    == sticky \/ rest
        up    == guard = 1 /\ (st \/ keep[MantissaBits] = 1)
        inc   == IncBits(keep)
        drop  == Len(bs) - MantissaBits
    IN  IF ~up THEN [mant |-> keep, drop |-> drop,
                     dir |-> IF guard = 0 /\ ~st THEN 0 ELSE -1]
        ELSE IF Len(inc) > MantissaBits
             THEN [mant |-> SubSeq(inc, 1, MantissaBits), drop |-> drop + 1, dir |-> 1]
             ELSE [mant |-> inc, drop |-> drop, dir |-> 1]

\* Binary long division of r / d below the binary point (r < d), eight
\* bits at a time, until the bit string has more than MantissaBits
\* significant bits.
RECURSIVE DivBits(_, _, _, _)
DivBits(bs, r, d, frac) ==
    IF Len(bs) > MantissaBits THEN [bits |-> bs, rem |-> r, frac |-> frac]
    ELSE LET t == 256 * r
         IN  DivBits(StripZeros(bs \o BitsFixed(t \div d, 8)), t % d, d, frac + 8)

\* The binary64 number nearest to n / d (n > 0, d > 0):
\* mant * 2^ex, with the direction of the rounding.
Fl(n, d) ==
    LET q  == DivBits(BitsOfNat(n \div d), n % d, d, 0)
        rd == RoundBits(q.bits, q.rem # 0)
    IN  [mant |-> rd.mant, ex |-> rd.drop - q.frac, dir |-> rd.dir]

\* f * k, rounded to binary64
FlMul(f, k) ==
    LET p  == MulBits(f.mant, k)
        rd == IF Len(p) > MantissaBits
              THEN RoundBits(p, FALSE)
              ELSE [mant |-> p \o Zeros(MantissaBits - Len(p)),
                    drop |-> Len(p) - MantissaBits, dir |-> 0]
    IN  [mant |-> rd.mant, ex |-> f.ex + rd.drop]

\* bs - 1 in as many places (bs holds a 1)
DecBits(bs) ==
    LET p == CHOOSE i \in 1..Len(bs) : bs[i] = 1 /\ \A j \in (i + 1)..Len(bs) : bs[j] = 0
    IN  [i \in 1..Len(bs) |-> IF i < p THEN bs[i] ELSE IF i = p THEN 0 ELSE 1]

\* the binary64 number next to f toward zero
FlTowardZero(f) ==
    IF f.mant = <<1>> \o Zeros(MantissaBits - 1)
    THEN [mant |-> [i \in 1..MantissaBits |-> 1], ex |-> f.ex - 1]
    ELSE [mant |-> DecBits(f.mant), ex |-> f.ex]

\* The bits of the integer part of f (truncation toward zero)
TruncBits(f) ==
    IF f.ex >= 0 THEN f.mant \o Zeros(f.ex)
    ELSE IF 0 - f.ex >= MantissaBits THEN << >>
    ELSE SubSeq(f.mant, 1, MantissaBits + f.ex)

\* ECMAScript ToInt32 of a signed integer given by sign and magnitude bits:
\* the value modulo 2^32, read as two's complement.
ToInt32(neg, bs) ==
    LET n    == Len(bs)
        low  == IF n > 32 THEN SubSeq(bs, n - 31, n) ELSE Zeros(32 - n) \o bs
        b31  == low[1]
        lo31 == NatOfBits(SubSeq(low, 2, 32))
    IN  IF ~neg THEN (IF b31 = 0 THEN lo31 ELSE lo31 + INT32_MIN)
        ELSE IF b31 = 0 THEN 0 - lo31
        ELSE IF lo31 = 0 THEN INT32_MIN
        ELSE (INT32_MAX - lo31) + 1

\* ------------------------------------------------------------------ entries
IntEntry(v)    == [type |-> "int", value |-> v]
StringEntry(s) == [type |-> "string", value |-> s]
BoolEntry(b)   == [type |-> "bool", value |-> b]
DoubleEntry(d) == [type |-> "double", value |-> d]
Undefined      == [type |-> "undefined", value |-> 0]

\* A double is the decimal [m, e] in lowest terms (no trailing zero in m)
\* with ulps = 0, or with ulps = 1 the binary64 number next to that one
\* toward zero; e = -1 writes an infinity of the sign of m.
RECURSIVE Dec(_, _)
Dec(m, e) ==
    IF m = 0 THEN [m |-> 0, e |-> 0, ulps |-> 0]
    ELSE IF e > 0 /\ m % 10 = 0 THEN Dec(m \div 10, e - 1)
    ELSE [m |-> m, e |-> e, ulps |-> 0]

\* the double next to d toward zero (d finite and not 0)
TowardZero(d) == [d EXCEPT !.ulps = 1]

\* the binary64 magnitude of a finite double that is not 0
Binary64(d) ==
    With(Fl(Abs(d.m), Pow10(d.e)), LAMBDA f :
        IF d.ulps = 1 THEN FlTowardZero(f) ELSE [mant |-> f.mant, ex |-> f.ex])

IsInfinite(d) == d.e = -1

\* enum ValueType
ValueType_INTEGER == 1
ValueType_STRING == 2
ValueType_BOOL == 3
ValueType_DOUBLE == 4

\* ---------------------------------------------------------------- charset
\* windows-1250, an excerpt: the bytes below 0x80 are ASCII, and of the
\* upper half the pairs <<byte, code unit>> below.  The inputs of the model
\* use no other byte.
Cp1250High == { <<128, 8364>>, <<138, 352>>, <<179, 322>>, <<233, 233>>, <<255, 729>> }
DefaultChar == 63
ReplacementChar == 65533

\* TextDecoder('windows-1250').decode: one code unit for every byte
decodeByte(b) ==
    IF b < 128 THEN b
    ELSE IF \E p \in Cp1250High : p[1] = b
         THEN (CHOOSE p \in Cp1250High : p[1] = b)[2]
         ELSE ReplacementChar

decoder_decode(bytes) == [i \in 1..Len(bytes) |-> decodeByte(bytes[i])]

\* iconv-lite encode(input, 'windows-1250'): one byte for every code unit,
\* the default character '?' for a code unit the code page does not have
encodeChar(c) ==
    IF c < 128 THEN c
    ELSE IF \E p \in Cp1250High : p[2] = c
         THEN (CHOOSE p \in Cp1250High : p[2] = c)[1]
         ELSE DefaultChar

\* an encoder that writes UTF-8: more than one byte above ASCII
RECURSIVE encoder_encode_utf8(_)
encoder_encode_utf8(str) ==
    IF str = << >> THEN << >>
    ELSE LET c == str[1]
             b == IF c < 128 THEN <<c>>
                  ELSE IF c < 2048 THEN <<192 + (c \div 64), 128 + (c % 64)>>
                  ELSE <<224 + (c \div 4096), 128 + ((c \div 64) % 64), 128 + (c % 64)>>
         IN  b \o encoder_encode_utf8(Tail(str))

encoder_encode(str) == [i \in 1..Len(str) |-> encodeChar(str[i])]

Representable(str) ==
    \A i \in 1..Len(str) : str[i] < 128 \/ \E p \in Cp1250High : p[2] = str[i]

\* ------------------------------------------------------------ BinaryBuffer
\* An unsigned 32-bit value is [hi, lo]: bit 31 and the 31 bits below it.
U32(n) == [hi |-> 0, lo |-> n]

\* getUint32 reading the four bytes most significant first
getUint32_bigEndian(data, offset) ==
    IF offset + 4 > Len(data) THEN [ok |-> FALSE, value |-> U32(0), offset |-> offset]
    ELSE [ok |-> TRUE,
          value |-> [hi |-> data[offset + 1] \div 128,
                     lo |-> data[offset + 4] + 256 * data[offset + 3]
                            + 65536 * data[offset + 2]
                            + 16777216 * (data[offset + 1] % 128)],
          offset |-> offset + 4]

\* DataView.getUint32(offset, littleEndian = true); RangeError when the four
\* bytes do not lie inside the view
getUint32(data, offset) ==
    IF offset + 4 > Len(data) THEN [ok |-> FALSE, value |-> U32(0), offset |-> offset]
    ELSE [ok |-> TRUE,
          value |-> [hi |-> data[offset + 4] \div 128,
                     lo |-> data[offset + 1] + 256 * data[offset + 2]
                            + 65536 * data[offset + 3]
                            + 16777216 * (data[offset + 4] % 128)],
          offset |-> offset + 4]

AsInt32(u) == IF u.hi = 0 THEN u.lo ELSE u.lo + INT32_MIN

getInt32(data, offset) ==
    LET r == getUint32(data, offset)
    IN  [ok |-> r.ok, value |-> AsInt32(r.value), offset |-> r.offset]

\* read(size): ArrayBuffer.slice clamps to the end of the buffer and never
\* throws; the offset advances by size whatever was sliced.  An offset past
\* every buffer of the model is kept at OffsetCap.
read(data, offset, size) ==
    LET far == size.hi = 1 \/ size.lo >= OffsetCap - offset
        end == IF far THEN Len(data) ELSE Min(offset + size.lo, Len(data))
    IN  [bytes  |-> SubSeq(data, offset + 1, end),
         offset |-> IF far THEN OffsetCap ELSE offset + size.lo]

\* little-endian bytes of a value below 2^31, and of a signed 32-bit value
Uint32Bytes(n) ==
    << n % 256, (n \div 256) % 256, (n \div 65536) % 256, (n \div 16777216) % 256 >>

Int32Bytes(v) ==
    IF v >= 0 THEN Uint32Bytes(v)
    ELSE LET w == Uint32Bytes(v - INT32_MIN)
         IN  << w[1], w[2], w[3], w[4] + 128 >>

\* createGrowableDataView.transferFromConverter: grow the array to hold the
\* bytes and store them at byteOffset
transferFromConverter(buffer, byteOffset, bytes) ==
    [i \in 1..Max(Len(buffer), byteOffset + Len(bytes)) |->
        IF i > byteOffset /\ i <= byteOffset + Len(bytes) THEN bytes[i - byteOffset]
        ELSE IF i <= Len(buffer) THEN buffer[i]
        ELSE 0]

\* BinaryBuffer over the growable view: w = [buffer, offset]
setUint32(w, n) ==
    [buffer |-> transferFromConverter(w.buffer, w.offset, Uint32Bytes(n)),
     offset |-> w.offset + 4]

setInt32(w, v) ==
    [buffer |-> transferFromConverter(w.buffer, w.offset, Int32Bytes(v)),
     offset |-> w.offset + 4]

setUint8(w, b) ==
    [buffer |-> transferFromConverter(w.buffer, w.offset, <<b>>),
     offset |-> w.offset + 1]

RECURSIVE write(_, _)
write(w, bytes) ==
    IF bytes = << >> THEN w ELSE write(setUint8(w, bytes[1]), Tail(bytes))

\* ---------------------------------------------------------- serializeArray
\* setInt32(entry.value * 10000): the product is rounded to binary64, then
\* DataView.setInt32 applies ToInt32 (truncation, modulo 2^32)
FixedOfDouble(d) ==
    IF d.m = 0 \/ IsInfinite(d) THEN 0
    ELSE ToInt32(d.m < 0, TruncBits(FlMul(Binary64(d), FixedPointScale)))

serializeEntry(w, entry) ==
    CASE entry.type = "int" ->
            setInt32(setUint32(w, ValueType_INTEGER), entry.value)
      [] entry.type = "string" ->
            write(setUint32(setUint32(w, ValueType_STRING), Len(entry.value)),
                  encoder_encode(entry.value))
      [] entry.type = "bool" ->
            setUint32(setUint32(w, ValueType_BOOL), IF entry.value THEN 1 ELSE 0)
      [] entry.type = "double" ->
            setInt32(setUint32(w, ValueType_DOUBLE), FixedOfDouble(entry.value))

RECURSIVE serializeEntries(_, _)
serializeEntries(w, data) ==
    IF data = << >> THEN w
    ELSE serializeEntries(serializeEntry(w, data[1]), Tail(data))

\* serializeArray writing a count one too large
serializeArray_countPlusOne(data) ==
    serializeEntries(setUint32([buffer |-> << >>, offset |-> 0], Len(data) + 1), data).buffer

\* an encoder that writes no count
serializeArray_noCount(data) ==
    serializeEntries([buffer |-> << >>, offset |-> 0], data).buffer

serializeArray(data) ==
    serializeEntries(setUint32([buffer |-> << >>, offset |-> 0], Len(data)), data).buffer

\* -------------------------------------------------------- deserializeArray
\* The two revisions of array.ts differ in the switch on the type tag: the
\* tagged-record revision has no default case, the raw-scalar revision
\* throws on an unknown tag.
Revisions == {"tagged", "scalar"}

IsTag(u, t) == u.hi = 0 /\ u.lo = t
KnownTag(u) == u.hi = 0 /\ u.lo \in 1..4

\* i < count
Below(i, count) == count.hi = 1 \/ i < count.lo

\* the decoder between two steps: d = [offset, count, i, entries, status],
\* status "loop" (in the for loop), "done" (returned entries), "RangeError"
\* (thrown by the DataView), "Error" (thrown on an unknown tag)
Thrown(d, status) ==
    [offset |-> d.offset, count |-> d.count, i |-> d.i,
     entries |-> d.entries, status |-> status]

\* new BinaryBuffer(new DataView(data)); count = buffer.getUint32()
deserializeStart(data) ==
    LET c == getUint32(data, 0)
    IN  [offset |-> c.offset, count |-> c.value, i |-> 0, entries |-> << >>,
         status |-> IF c.ok THEN "loop" ELSE "RangeError"]

Pushed(d, offset, entry) ==
    [offset |-> offset, count |-> d.count, i |-> d.i + 1,
     entries |-> Append(d.entries, entry), status |-> "loop"]

\* the fixed-point payload k as the double k / 10000
DoubleOfFixed(k) == Dec(k, 4)

\* a decoder that takes every non-zero Boolean payload for true
deserializeStep_nonZeroIsTrue(data, d, rev) ==
    IF ~Below(d.i, d.count) THEN Thrown(d, "done")
    ELSE
    LET type == getUint32(data, d.offset)
    IN  IF ~type.ok THEN Thrown(d, "RangeError")
        ELSE IF IsTag(type.value, ValueType_INTEGER) THEN
            LET v == getInt32(data, type.offset)
            IN  IF v.ok THEN Pushed(d, v.offset, IntEntry(v.value))
                ELSE Thrown(d, "RangeError")
        ELSE IF IsTag(type.value, ValueType_STRING) THEN
            LET length == getUint32(data, type.offset)
                slice  == read(data, length.offset, length.value)
            IN  IF length.ok
                THEN Pushed(d, slice.offset, StringEntry(decoder_decode(slice.bytes)))
                ELSE Thrown(d, "RangeError")
        ELSE IF IsTag(type.value, ValueType_BOOL) THEN
            LET v == getUint32(data, type.offset)
            IN  IF v.ok THEN Pushed(d, v.offset, BoolEntry(~IsTag(v.value, 0)))
                ELSE Thrown(d, "RangeError")
        ELSE IF IsTag(type.value, ValueType_DOUBLE) THEN
            LET v == getInt32(data, type.offset)
            IN  IF v.ok THEN Pushed(d, v.offset, DoubleEntry(DoubleOfFixed(v.value)))
                ELSE Thrown(d, "RangeError")
        ELSE IF rev = "scalar" THEN Thrown(d, "Error")
        ELSE [offset |-> type.offset, count |-> d.count, i |-> d.i + 1,
              entries |-> d.entries, status |-> "loop"]

\* a decoder that does not advance past a tag it does not know
deserializeStep_rereadsTag(data, d, rev) ==
    IF ~Below(d.i, d.count) THEN Thrown(d, "done")
    ELSE
    LET type == getUint32(data, d.offset)
    IN  IF ~type.ok THEN Thrown(d, "RangeError")
        ELSE IF IsTag(type.value, ValueType_INTEGER) THEN
            LET v == getInt32(data, type.offset)
            IN  IF v.ok THEN Pushed(d, v.offset, IntEntry(v.value))
                ELSE Thrown(d, "RangeError")
        ELSE IF IsTag(type.value, ValueType_STRING) THEN
            LET length == getUint32(data, type.offset)
                slice  == read(data, length.offset, length.value)
            IN  IF length.ok
                THEN Pushed(d, slice.offset, StringEntry(decoder_decode(slice.bytes)))
                ELSE Thrown(d, "RangeError")
        ELSE IF IsTag(type.value, ValueType_BOOL) THEN
            LET v == getUint32(data, type.offset)
            IN  IF v.ok THEN Pushed(d, v.offset, BoolEntry(IsTag(v.value, 1)))
                ELSE Thrown(d, "RangeError")
        ELSE IF IsTag(type.value, ValueType_DOUBLE) THEN
            LET v == getInt32(data, type.offset)
            IN  IF v.ok THEN Pushed(d, v.offset, DoubleEntry(DoubleOfFixed(v.value)))
                ELSE Thrown(d, "RangeError")
        ELSE IF rev = "scalar" THEN Thrown(d, "Error")
        ELSE [offset |-> d.offset, count |-> d.count, i |-> d.i + 1,
              entries |-> d.entries, status |-> "loop"]

\* one evaluation of the loop condition and, when it holds, of the body
deserializeStep(data, d, rev) ==
    IF ~Below(d.i, d.count) THEN Thrown(d, "done")
    ELSE
    LET type == getUint32(data, d.offset)
    IN  IF ~type.ok THEN Thrown(d, "RangeError")
        ELSE IF IsTag(type.value, ValueType_INTEGER) THEN
            LET v == getInt32(data, type.offset)
            IN  IF v.ok THEN Pushed(d, v.offset, IntEntry(v.value))
                ELSE Thrown(d, "RangeError")
        ELSE IF IsTag(type.value, ValueType_STRING) THEN
            LET length == getUint32(data, type.offset)
                slice  == read(data, length.offset, length.value)
            IN  IF length.ok
                THEN Pushed(d, slice.offset, StringEntry(decoder_decode(slice.bytes)))
                ELSE Thrown(d, "RangeError")
        ELSE IF IsTag(type.value, ValueType_BOOL) THEN
            LET v == getUint32(data, type.offset)
            IN  IF v.ok THEN Pushed(d, v.offset, BoolEntry(IsTag(v.value, 1)))
                ELSE Thrown(d, "RangeError")
        ELSE IF IsTag(type.value, ValueType_DOUBLE) THEN
            LET v == getInt32(data, type.offset)
            IN  IF v.ok THEN Pushed(d, v.offset, DoubleEntry(DoubleOfFixed(v.value)))
                ELSE Thrown(d, "RangeError")
        ELSE IF rev = "scalar" THEN Thrown(d, "Error")
        ELSE [offset |-> type.offset, count |-> d.count, i |-> d.i + 1,
              entries |-> d.entries, status |-> "loop"]

RECURSIVE deserializeRun(_, _, _)
deserializeRun(data, d, rev) ==
    IF d.status # "loop" THEN d
    ELSE CHOOSE r \in { deserializeRun(data, n, rev) :
                           n \in {deserializeStep(data, d, rev)} } : TRUE

\* the call as a whole: the final decoder state
deserializeArray(data, rev) == deserializeRun(data, deserializeStart(data), rev)

\* ------------------------------------------------------------- conversions
\* strings of the code, as code units
Str_TRUE == <<84, 82, 85, 69>>
Str_FALSE == <<70, 65, 76, 83, 69>>
Str_Infinity == <<73, 110, 102, 105, 110, 105, 116, 121>>
Str_1 == <<49>>
Char_Minus == 45
Char_Plus == 43
Char_Dot == 46
Char_0 == 48

\* WhiteSpace and LineTerminator code units
WhiteSpaceChars == {9, 10, 11, 12, 13, 32, 160, 5760, 8232, 8233, 8239, 8287, 12288, 65279}
                   \cup (8192..8202)

IsDigit(c) == c >= 48 /\ c <= 57
IsPrefix(p, t) == Len(p) <= Len(t) /\ SubSeq(t, 1, Len(p)) = p

\* the first index from `from` on whose code unit is not in S; Len + 1 if none
SkipWhile(t, from, S) ==
    LET stops == {i \in from..Len(t) : t[i] \notin S}
    IN  IF stops = {} THEN Len(t) + 1
        ELSE CHOOSE i \in stops : \A j \in stops : i <= j

Digits == 48..57

\* the number written by the digits t[from..to]
RECURSIVE NatOfDigits(_, _, _)
NatOfDigits(t, from, to) ==
    IF to < from THEN 0
    ELSE 10 * NatOfDigits(t, from, to - 1) + (t[to] - Char_0)

\* the decimal digits of n >= 0
RECURSIVE NatStr(_)
NatStr(n) ==
    IF n < 10 THEN <<Char_0 + n>>
    ELSE Append(NatStr(n \div 10), Char_0 + (n % 10))

\* n written with exactly w digits (n < 10^w)
PadStr(n, w) ==
    LET t == NatStr(n) IN [i \in 1..(w - Len(t)) |-> Char_0] \o t

\* BigInt.prototype.toString()
IntStr(n) ==
    IF n >= 0 THEN NatStr(n)
    ELSE IF n = INT32_MIN
         THEN <<Char_Minus>> \o NatStr(INT32_MAX \div 10) \o NatStr((INT32_MAX % 10) + 1)
         ELSE <<Char_Minus>> \o NatStr(0 - n)

Infinity(neg) == [m |-> IF neg THEN -1 ELSE 1, e |-> -1, ulps |-> 0]

\* the digits and the exponent part of a StrDecimalLiteral: body is the text
\* after the sign, its integer digits end before intEnd and its fraction
\* digits before fracEnd
parseDecimal(neg, body, intEnd, fracEnd) ==
    LET hasDot   == fracEnd > intEnd
        intLen   == intEnd - 1
        fracLen  == IF hasDot THEN fracEnd - intEnd - 1 ELSE 0
        digits   == SubSeq(body, 1, intLen) \o SubSeq(body, intEnd + 1, fracEnd - 1)
        hasE     == fracEnd <= Len(body) /\ body[fracEnd] \in {101, 69}
        signed   == hasE /\ fracEnd + 1 <= Len(body)
                       /\ body[fracEnd + 1] \in {Char_Minus, Char_Plus}
        expNeg   == signed /\ body[fracEnd + 1] = Char_Minus
        expFrom  == IF signed THEN fracEnd + 2 ELSE fracEnd + 1
    IN  With(IF hasE THEN SkipWhile(body, expFrom, Digits) ELSE expFrom,
             LAMBDA expEnd :
        With(IF hasE /\ expEnd > expFrom
             THEN NatOfDigits(body, expFrom, expEnd - 1) ELSE 0,
             LAMBDA exp :
        With(IF expNeg THEN fracLen + exp ELSE fracLen - exp,
             LAMBDA scale :
        With(IF neg THEN 0 - NatOfDigits(digits, 1, Len(digits))
                    ELSE NatOfDigits(digits, 1, Len(digits)),
             LAMBDA m :
            IF IsPrefix(Str_Infinity, body) THEN [nan |-> FALSE, d |-> Infinity(neg)]
            ELSE IF intLen + fracLen = 0 THEN [nan |-> TRUE, d |-> Dec(0, 0)]
            ELSE IF scale >= 0 THEN [nan |-> FALSE, d |-> Dec(m, scale)]
            ELSE [nan |-> FALSE, d |-> Dec(m * Pow10(0 - scale), 0)]))))

\* parseFloat(text): leading white space is skipped, then the longest prefix
\* that is a StrDecimalLiteral is converted; NaN when there is none.
\* Result [nan, d].
parseFloat(text) ==
    With(SubSeq(text, SkipWhile(text, 1, WhiteSpaceChars), Len(text)),
         LAMBDA t :
    With(IF t # << >> /\ t[1] \in {Char_Minus, Char_Plus} THEN Tail(t) ELSE t,
         LAMBDA body :
    With(SkipWhile(body, 1, Digits),
         LAMBDA intEnd :
    With(IF intEnd <= Len(body) /\ body[intEnd] = Char_Dot
         THEN SkipWhile(body, intEnd + 1, Digits) ELSE intEnd,
         LAMBDA fracEnd :
        parseDecimal(t # << >> /\ t[1] = Char_Minus, body, intEnd, fracEnd)))))

\* Math.trunc of a finite double: the integer part of the decimal (a double
\* this close to a decimal of so few digits has the same integer part)
TruncDouble(d) ==
    LET mag   == Abs(d.m) \div Pow10(d.e)
        whole == Abs(d.m) % Pow10(d.e) = 0
        int   == IF d.ulps = 1 /\ whole THEN mag - 1 ELSE mag
    IN  IF d.m >= 0 THEN int ELSE 0 - int

\* Number.prototype.toFixed(4): the decimal with 4 places nearest to the exact
\* value of the double, the larger one when two are equally near
toFixed4(d) ==
    IF IsInfinite(d)
    THEN (IF d.m < 0 THEN <<Char_Minus>> ELSE << >>) \o Str_Infinity
    ELSE
    LET mag  == Abs(d.m)
        sign == IF d.m < 0 THEN <<Char_Minus>> ELSE << >>
    IN  IF d.e <= 4
        THEN sign \o NatStr(mag \div Pow10(d.e)) \o <<Char_Dot>>
             \o (IF d.e = 0 THEN << >> ELSE PadStr(mag % Pow10(d.e), d.e))
             \o [i \in 1..(4 - d.e) |-> Char_0]
        ELSE LET unit == Pow10(d.e - 4)
                 q    == mag \div unit
                 r    == mag % unit
                 up   == 2 * r > unit
                         \/ (2 * r = unit /\ d.ulps = 0 /\ Fl(mag, Pow10(d.e)).dir >= 0)
                 n    == IF up THEN q + 1 ELSE q
             IN  sign \o NatStr(n \div 10000) \o <<Char_Dot>> \o PadStr(n % 10000, 4)

\* String.prototype.toUpperCase and trim, on the code units of the model
toUpperCase(t) == [i \in 1..Len(t) |-> IF t[i] >= 97 /\ t[i] <= 122 THEN t[i] - 32 ELSE t[i]]

trim(t) ==
    LET keep == {i \in 1..Len(t) : t[i] \notin WhiteSpaceChars}
    IN  IF keep = {} THEN << >>
        ELSE SubSeq(t, CHOOSE i \in keep : \A j \in keep : i <= j,
                       CHOOSE i \in keep : \A j \in keep : j <= i)

\* getValueType: the ValueType of a raw scalar, 0 when it throws
getValueType(entry) ==
    CASE entry.type = "int" -> ValueType_INTEGER
      [] entry.type = "string" -> ValueType_STRING
      [] entry.type = "bool" -> ValueType_BOOL
      [] entry.type = "double" -> ValueType_DOUBLE
      [] OTHER -> 0

\* The make*Entry functions return [ok, entry]; ok is FALSE when the call
\* throws (typeof outside the four, or BigInt of a non-finite number).
Made(entry) == [ok |-> TRUE, entry |-> entry]
Throws == [ok |-> FALSE, entry |-> Undefined]

makeIntegerEntry(value) ==
    CASE value.type = "int" -> Made(value)
      [] value.type = "string" ->
            LET parsedValue == parseFloat(value.value)
            IN  IF parsedValue.nan THEN Made(IntEntry(0))
                ELSE IF IsInfinite(parsedValue.d) THEN Throws
                ELSE Made(IntEntry(TruncDouble(parsedValue.d)))
      [] value.type = "bool" -> Made(IntEntry(IF value.value THEN 1 ELSE 0))
      [] value.type = "double" ->
            IF IsInfinite(value.value) THEN Throws
            ELSE Made(IntEntry(TruncDouble(value.value)))
      [] OTHER -> Throws

makeStringEntry(value) ==
    CASE value.type = "int" -> Made(StringEntry(IntStr(value.value)))
      [] value.type = "string" -> Made(value)
      [] value.type = "bool" ->
            Made(StringEntry(IF value.value THEN Str_TRUE ELSE Str_FALSE))
      [] value.type = "double" -> Made(StringEntry(toFixed4(value.value)))
      [] OTHER -> Throws

\* a makeBoolEntry that compares the text as it was typed
makeBoolEntry_noTrim(value) ==
    CASE value.type = "int" -> Made(BoolEntry(value.value = 0))
      [] value.type = "string" ->
            Made(BoolEntry(value.value = Str_1 \/ value.value = Str_TRUE))
      [] value.type = "bool" -> Made(value)
      [] value.type = "double" -> Made(BoolEntry(value.value.m = 0))
      [] OTHER -> Throws

makeBoolEntry(value) ==
    CASE value.type = "int" -> Made(BoolEntry(value.value = 0))
      [] value.type = "string" ->
            Made(BoolEntry(value.value = Str_1
                           \/ trim(toUpperCase(value.value)) = Str_TRUE))
      [] value.type = "bool" -> Made(value)
      [] value.type = "double" -> Made(BoolEntry(value.value.m = 0))
      [] OTHER -> Throws

makeDoubleEntry(value) ==
    CASE value.type = "int" -> Made(DoubleEntry(Dec(value.value, 0)))
      [] value.type = "string" ->
            LET parsedValue == parseFloat(value.value)
            IN  IF parsedValue.nan THEN Made(DoubleEntry(Dec(0, 0)))
                ELSE Made(DoubleEntry(parsedValue.d))
      [] value.type = "bool" -> Made(DoubleEntry(Dec(IF value.value THEN 1 ELSE 0, 0)))
      [] value.type = "double" -> Made(value)
      [] OTHER -> Throws

\* a conversion that returns its argument for a target outside the four
convertEntry_noDefault(value, targetType) ==
    CASE targetType = ValueType_INTEGER -> makeIntegerEntry(value)
      [] targetType = ValueType_STRING -> makeStringEntry(value)
      [] targetType = ValueType_BOOL -> makeBoolEntry(value)
      [] targetType = ValueType_DOUBLE -> makeDoubleEntry(value)
      [] OTHER -> Made(value)

convertEntry(value, targetType) ==
    CASE targetType = ValueType_INTEGER -> makeIntegerEntry(value)
      [] targetType = ValueType_STRING -> makeStringEntry(value)
      [] targetType = ValueType_BOOL -> makeBoolEntry(value)
      [] targetType = ValueType_DOUBLE -> makeDoubleEntry(value)
      [] OTHER -> Throws

\* ------------------------------------------------- webview (media/main.js)
\* the type names of the webview's entries, by type code
TypeName(code) ==
    CASE code = ValueType_INTEGER -> "int"
      [] code = ValueType_STRING -> "string"
      [] code = ValueType_BOOL -> "bool"
      [] code = ValueType_DOUBLE -> "double"
      [] OTHER -> "bad"

HexDigits == (48..57) \cup (65..70) \cup (97..102)
HexValue(c) == IF c <= 57 THEN c - 48 ELSE IF c <= 70 THEN c - 55 ELSE c - 87

RECURSIVE NatOfHexDigits(_, _, _)
NatOfHexDigits(t, from, to) ==
    IF to < from THEN 0
    ELSE 16 * NatOfHexDigits(t, from, to - 1) + HexValue(t[to])

\* parseInt(text) without a radix: white space, a sign, then hexadecimal
\* digits after 0x or 0X and decimal digits otherwise; NaN without digits.
\* Result [nan, n].
parseInt(text) ==
    With(SubSeq(text, SkipWhile(text, 1, WhiteSpaceChars), Len(text)),
         LAMBDA t :
    With(IF t # << >> /\ t[1] \in {Char_Minus, Char_Plus} THEN Tail(t) ELSE t,
         LAMBDA body :
    With(Len(body) >= 2 /\ body[1] = Char_0 /\ body[2] \in {120, 88},
         LAMBDA hex :
    With(IF hex THEN SkipWhile(body, 3, HexDigits) ELSE SkipWhile(body, 1, Digits),
         LAMBDA end :
    With(IF hex THEN NatOfHexDigits(body, 3, end - 1) ELSE NatOfDigits(body, 1, end - 1),
         LAMBDA mag :
        [nan |-> end = (IF hex THEN 3 ELSE 1),
         n   |-> IF t # << >> /\ t[1] = Char_Minus THEN 0 - mag ELSE mag])))))

\* ArrEntry.stringValue; this.type is the type the entry has
stringValue(entry) ==
    CASE entry.type = "double" -> toFixed4(entry.value)
      [] entry.type = "int" -> IntStr(entry.value)
      [] entry.type = "bool" -> IF entry.value THEN Str_TRUE ELSE Str_FALSE
      [] entry.type = "string" -> entry.value

\* ArrEntry.switchType(type) on an entry of the webview; [ok, entry], ok is
\* FALSE when it throws 'Bad type'.  An int and a double both hold a
\* number, so an int converted from an infinite double holds that double.
switchType(entry, type) ==
    CASE type = "int" ->
            Made(CASE entry.type = "int" -> entry
                   [] entry.type = "double" ->
                        IF IsInfinite(entry.value)
                        THEN [type |-> "int", value |-> entry.value]
                        ELSE IntEntry(TruncDouble(entry.value))
                   [] entry.type = "bool" -> IntEntry(IF entry.value THEN 1 ELSE 0)
                   [] entry.type = "string" ->
                        With(parseInt(entry.value), LAMBDA parsed :
                            IntEntry(IF parsed.nan THEN 0 ELSE parsed.n)))
      [] type = "string" -> Made(StringEntry(stringValue(entry)))
      [] type = "bool" ->
            Made(CASE entry.type = "int" -> BoolEntry(entry.value = 1)
                   [] entry.type = "double" -> BoolEntry(entry.value = Dec(1, 0))
                   [] entry.type = "string" ->
                        BoolEntry(entry.value = Str_1
                                  \/ trim(toUpperCase(entry.value)) = Str_TRUE)
                   [] entry.type = "bool" -> entry)
      [] type = "double" ->
            Made(CASE entry.type = "int" -> DoubleEntry(Dec(entry.value, 0))
                   [] entry.type = "double" -> entry
                   [] entry.type = "bool" ->
                        DoubleEntry(Dec(IF entry.value THEN 1 ELSE 0, 0))
                   [] entry.type = "string" ->
                        With(parseFloat(entry.value), LAMBDA parsed :
                            DoubleEntry(IF parsed.nan THEN Dec(0, 0) ELSE parsed.d)))
      [] OTHER -> Throws

\* ------------------------------------------------------------ ArrDocument
\* Array.prototype.splice(start, deleteCount, ...items)
splice(es, start, deleteCount, items) ==
    LET len  == Len(es)
        from == IF start < 0 THEN Max(len + start, 0) ELSE Min(start, len)
        dc   == Min(Max(deleteCount, 0), len - from)
    IN  SubSeq(es, 1, from) \o items \o SubSeq(es, from + dc + 1, len)

\* es[index]: undefined outside 0..length-1
At(es, index) ==
    IF index >= 0 /\ index < Len(es) THEN es[index + 1] ELSE Undefined

\* es[index] = v: the array grows, with holes, when index >= length; a
\* negative index names a property, not an element
SetAt(es, index, v) ==
    IF index < 0 THEN es
    ELSE [i \in 1..Max(Len(es), index + 1) |->
            IF i = index + 1 THEN v
            ELSE IF i <= Len(es) THEN es[i]
            ELSE Undefined]

\* indices.toSorted((a, b) => a - b)
RECURSIVE Insert(_, _)
Insert(sorted, x) ==
    IF sorted = << >> THEN <<x>>
    ELSE IF x < sorted[1] THEN <<x>> \o sorted
    ELSE <<sorted[1]>> \o Insert(Tail(sorted), x)

\* the sort left out: the indices stay in the order given
toSorted_unsorted(indices) == indices

RECURSIVE toSorted(_)
toSorted(indices) ==
    IF indices = << >> THEN << >>
    ELSE Insert(toSorted(SubSeq(indices, 1, Len(indices) - 1)), indices[Len(indices)])

toReversed(q) == [i \in 1..Len(q) |-> q[Len(q) + 1 - i]]

\* for (const index of indices) this._entries.splice(index, 1)
RECURSIVE spliceOut(_, _)
spliceOut(es, indices) ==
    IF indices = << >> THEN es
    ELSE spliceOut(splice(es, indices[1], 1, << >>), Tail(indices))

\* for (i ...) this._entries.splice(indices[i], 0, backupEntries[i])
RECURSIVE spliceIn(_, _, _)
spliceIn(es, indices, backupEntries) ==
    IF indices = << >> THEN es
    ELSE spliceIn(splice(es, indices[1], 0, <<backupEntries[1]>>),
                  Tail(indices), Tail(backupEntries))

\* The object handed to _onDidChange.fire: the label and what the two
\* closures captured.
Edit(label) ==
    [label |-> label, index |-> 0, backupValue |-> Undefined,
     modifiedValue |-> Undefined, indices |-> << >>, backupEntries |-> << >>,
     addedEntry |-> Undefined]

AddEdit(addedEntry) == [Edit("Add entry") EXCEPT !.addedEntry = addedEntry]
SetEdit(label, index, backupValue, modifiedValue) ==
    [Edit(label) EXCEPT !.index = index, !.backupValue = backupValue,
                        !.modifiedValue = modifiedValue]
RemoveEdit(indices, backupEntries) ==
    [Edit("Remove entries") EXCEPT !.indices = indices, !.backupEntries = backupEntries]
ClearEdit(backupEntries) == [Edit("Clear entries") EXCEPT !.backupEntries = backupEntries]

\* undo closures of which the one of addEntry does not pop
undo_withoutPop(edit, es) ==
    CASE edit.label = "Add entry" -> es
      [] edit.label \in {"Convert entry", "Set entry value"} ->
            SetAt(es, edit.index, edit.backupValue)
      [] edit.label = "Remove entries" -> spliceIn(es, edit.indices, edit.backupEntries)
      [] edit.label = "Clear entries" -> edit.backupEntries

\* the undo closure of an edit, run on the entries es
undo(edit, es) ==
    CASE edit.label = "Add entry" ->
            IF es = << >> THEN es ELSE SubSeq(es, 1, Len(es) - 1)
      [] edit.label \in {"Convert entry", "Set entry value"} ->
            SetAt(es, edit.index, edit.backupValue)
      [] edit.label = "Remove entries" -> spliceIn(es, edit.indices, edit.backupEntries)
      [] edit.label = "Clear entries" -> edit.backupEntries

\* the redo closure of an edit, run on the entries es
redo(edit, es) ==
    CASE edit.label = "Add entry" -> Append(es, edit.addedEntry)
      [] edit.label \in {"Convert entry", "Set entry value"} ->
            SetAt(es, edit.index, edit.modifiedValue)
      [] edit.label = "Remove entries" -> spliceOut(es, toReversed(edit.indices))
      [] edit.label = "Clear entries" -> << >>

\* get entries(): type and display string of every entry; getValueType
\* throws on an element that is none of the four kinds
Displayable(es) == \A i \in 1..Len(es) : getValueType(es[i]) # 0

WebviewEntries(es) ==
    [i \in 1..Len(es) |->
        [type |-> getValueType(es[i]), value |-> makeStringEntry(es[i]).entry.value]]

EditEvent(label) == [kind |-> "edit", label |-> label, entries |-> << >>]
ContentEvent(es) == [kind |-> "content", label |-> "", entries |-> WebviewEntries(es)]

\* _onDidChangeDocument.fire({ entries: this.entries })
FireContent(es) == IF Displayable(es) THEN <<ContentEvent(es)>> ELSE << >>

\* ============================================================ codec model
\* One decode of a buffer, step by step, and the encoding of its result.
\*   rev    the revision of array.ts that runs
\*   src    "entries": data is serializeArray(origin); "bytes": data is a
\*          buffer read from a file
\*   dec    the decoder: offset, count, i, entries, status
\*   reenc  serializeArray of the decoded entries
\*   sawUnknownTag, sawShortField: history of the decode (a tag outside
\*          1..4 was read; a declared field ran past the end of the buffer)
VARIABLES rev, src, origin, data, pc, dec, reenc, sawUnknownTag, sawShortField

\* The document (ArrDocument with the undo stack the editor keeps for it):
\*   _entries  the entry sequence
\*   edits     the edits fired through _onDidChange, oldest first
\*   cursor    how many of them are applied (the rest are undone)
\*   fired     the events fired by the last handler, in order
\*   threw     the last handler threw
\*   issued    how many edits were fired so far
\*   trail     history: the last command that recorded an edit, the entries
\*             before and after it, and whether undo / redo followed directly
\*   request   the message the last handler was run for
\*   scheme    the scheme of the document's uri: "file" or "untitled"
\*   limit     how many edits the session explored may fire
VARIABLES _entries, edits, cursor, fired, threw, trail, issued, request, scheme, limit

\* One conversion of one value (convertEntry of arrEditor.ts, switchType of
\* the webview, or a save and reopen of a one-entry document):
\*   cValue   the value converted
\*   cTarget  the target type code
\*   cResult  [ok, entry]: what the call returned, ok = FALSE when it threw
\*   cPc      "init", then "converted", "switched" or "reopened"
VARIABLES cValue, cTarget, cResult, cPc

codecVars == <<rev, src, origin, data, pc, dec, reenc, sawUnknownTag, sawShortField>>
docVars == <<_entries, edits, cursor, fired, threw, trail, issued, request, scheme, limit>>
convVars == <<cValue, cTarget, cResult, cPc>>
vars == <<codecVars, docVars, convVars>>

NoTrail ==
    [cmd |-> "none", valid |-> FALSE, indices |-> << >>,
     before |-> << >>, after |-> << >>, phase |-> "none"]

NoRequest ==
    [type |-> "none", index |-> 0, code |-> 0, value |-> << >>, indices |-> << >>]

\* the document variables while no document is open
NoDocument ==
    /\ _entries = << >>
    /\ edits = << >>
    /\ cursor = 0
    /\ fired = << >>
    /\ threw = FALSE
    /\ trail = NoTrail
    /\ issued = 0
    /\ request = NoRequest
    /\ scheme = "none"
    /\ limit = 0

\* the conversion variables while no single conversion is looked at
NoConversion ==
    /\ cValue = Undefined
    /\ cTarget = 0
    /\ cResult = Throws
    /\ cPc = "none"

RECURSIVE SeqsUpTo(_, _)
SeqsUpTo(S, n) ==
    IF n = 0 THEN { << >> }
    ELSE LET shorter == SeqsUpTo(S, n - 1)
         IN  shorter \cup { Append(q, x) : q \in {t \in shorter : Len(t) = n - 1}, x \in S }

\* sample values of the four kinds
SampleInts == { INT32_MIN, -1, 0, 42, INT32_MAX }
SampleStrings == { << >>, <<65, 66, 67>>, <<352, 322>>, <<65, 20013>> }
SampleFixed == { 0, 3, -6, 12345, -12345, 15000, INT32_MAX }
SampleEntries ==
    { IntEntry(v) : v \in SampleInts }
    \cup { StringEntry(t) : t \in SampleStrings }
    \cup { BoolEntry(b) : b \in BOOLEAN }
    \cup { DoubleEntry(DoubleOfFixed(k)) : k \in SampleFixed }

\* file contents: words of four bytes followed by a few loose bytes
Words == { Uint32Bytes(n) : n \in 0..5 } \cup { <<255, 255, 255, 255>> }
TailBytes == <<65, 66, 67, 68>>

RECURSIVE Flatten(_)
Flatten(ws) == IF ws = << >> THEN << >> ELSE ws[1] \o Flatten(Tail(ws))

\* the scenario buffer as printed, and with its fields in little-endian order
BigEndianExample ==
    <<0, 0, 0, 2, 0, 0, 0, 1, 0, 0, 0, 42, 0, 0, 0, 2, 0, 0, 0, 3, 65, 66, 67>>
LittleEndianExample ==
    <<2, 0, 0, 0, 1, 0, 0, 0, 42, 0, 0, 0, 2, 0, 0, 0, 3, 0, 0, 0, 65, 66, 67>>
ExampleEntries == << IntEntry(42), StringEntry(<<65, 66, 67>>) >>

RawBuffers ==
    { Flatten(ws) \o SubSeq(TailBytes, 1, t) :
        ws \in SeqsUpTo(Words, MaxWords), t \in 0..Min(MaxTail, Len(TailBytes)) }
    \cup { BigEndianExample, LittleEndianExample }

Idle ==
    [offset |-> 0, count |-> U32(0), i |-> 0, entries |-> << >>, status |-> "idle"]

InitCodec ==
    /\ rev \in Revisions
    /\ \/ src = "entries" /\ origin \in SeqsUpTo(SampleEntries, MaxLen)
          /\ data = serializeArray(origin)
       \/ src = "bytes" /\ origin = << >> /\ data \in RawBuffers
    /\ pc = "init"
    /\ dec = Idle
    /\ reenc = << >>
    /\ sawUnknownTag = FALSE
    /\ sawShortField = FALSE
    /\ NoDocument
    /\ NoConversion

\* the field the next step reads runs past the end of the buffer
ShortField(d) ==
    /\ Below(d.i, d.count)
    /\ LET type == getUint32(data, d.offset)
       IN  \/ ~type.ok
           \/ /\ KnownTag(type.value)
              /\ ~getUint32(data, type.offset).ok
           \/ /\ IsTag(type.value, ValueType_STRING)
              /\ LET length == getUint32(data, type.offset)
                 IN  /\ length.ok
                     /\ \/ length.value.hi = 1
                        \/ length.value.lo > Len(data) - length.offset

UnknownTag(d) ==
    /\ Below(d.i, d.count)
    /\ LET type == getUint32(data, d.offset)
       IN  type.ok /\ ~KnownTag(type.value)

\* deserializeArray is entered: the view is made and the count is read
DecodeStart ==
    /\ pc = "init"
    /\ dec' = deserializeStart(data)
    /\ sawShortField' = (Len(data) < 4)
    /\ pc' = "decode"
    /\ UNCHANGED <<rev, src, origin, data, reenc, sawUnknownTag>>
    /\ UNCHANGED <<docVars, convVars>>

\* one turn of the for loop
DecodeStep ==
    /\ pc = "decode"
    /\ dec.status = "loop"
    /\ dec' = deserializeStep(data, dec, rev)
    /\ sawUnknownTag' = (sawUnknownTag \/ UnknownTag(dec))
    /\ sawShortField' = (sawShortField \/ ShortField(dec))
    /\ UNCHANGED <<rev, src, origin, data, pc, reenc>>
    /\ UNCHANGED <<docVars, convVars>>

\* the decoded entries are encoded again
Reencode ==
    /\ pc = "decode"
    /\ dec.status = "done"
    /\ reenc' = serializeArray(dec.entries)
    /\ pc' = "reencoded"
    /\ UNCHANGED <<rev, src, origin, data, dec, sawUnknownTag, sawShortField>>
    /\ UNCHANGED <<docVars, convVars>>

NextCodec == DecodeStart \/ DecodeStep \/ Reencode

SpecCodec == InitCodec /\ [][NextCodec]_vars

\* ----------------------------------------------------------- codec claims
Finished == pc # "init" /\ dec.status # "loop"

FourDecimals(d) == d.e >= 0 /\ d.e <= 4 /\ d.ulps = 0

\* the entries the round trip is claimed for
InRoundTripDomain(es) ==
    \A j \in 1..Len(es) :
        /\ es[j].type = "string" => Representable(es[j].value)
        /\ es[j].type = "double" => FourDecimals(es[j].value)

\* C1: for every sequence of entries (Integer in the signed 32-bit range,
\* String of representable characters, Boolean, Double rounded to 4 decimal
\* places), deserializeArray(serializeArray(entries)) returns a sequence
\* equal to entries.
C1_RoundTrip ==
    (src = "entries" /\ InRoundTripDomain(origin) /\ Finished)
        => (dec.status = "done" /\ dec.entries = origin)

\* C2: decoding a zero-length buffer returns the empty sequence of entries
\* and raises no error.
C2_EmptyBufferDecodesToEmpty ==
    (data = << >> /\ Finished) => (dec.status = "done" /\ dec.entries = << >>)

\* C3: when a type tag outside 1..4 is read the decode fails with an error
\* there and then: nothing is returned, the entry is not skipped and no
\* further bytes are read as entries.
C3_UnknownTagFails ==
    sawUnknownTag => dec.status = "Error"

\* C4: a decode in which a declared field (count, tag, 4-byte payload,
\* string length, string payload) ran past the end of the buffer fails with
\* an error and returns no result.
C4_TruncationFails ==
    sawShortField => dec.status # "done"

\* the number of whole records lying in buf from offset to its end, -1 when
\* the bytes there are not a sequence of whole records
RECURSIVE CountRecords(_, _)
CountRecords(buf, offset) ==
    IF offset = Len(buf) THEN 0
    ELSE LET type == getUint32(buf, offset)
             body == getUint32(buf, type.offset)
             next == IF IsTag(type.value, ValueType_STRING)
                     THEN body.offset + body.value.lo
                     ELSE body.offset
             more == CountRecords(buf, next)
         IN  IF type.ok /\ KnownTag(type.value) /\ body.ok /\ next <= Len(buf) /\ more >= 0
             THEN 1 + more
             ELSE -1

\* C5: in every buffer produced by serializeArray the unsigned 32-bit count
\* at offset 0 equals the number of entry records that follow it.
C5_CountEqualsRecords ==
    src = "entries" =>
        /\ getUint32(data, 0).ok
        /\ getUint32(data, 0).value = U32(CountRecords(data, 4))
        /\ CountRecords(data, 4) = Len(origin)

C5_Witness ==
    /\ src = "entries" /\ Len(origin) = 2 /\ pc = "decode"
    /\ origin[1].type = "string" /\ origin[1].value # << >>
    /\ origin[2].type = "double"

\* where record j of the encoded origin starts and ends in data
RecordStart(j) == Len(serializeArray(SubSeq(origin, 1, j - 1)))
RecordEnd(j) == Len(serializeArray(SubSeq(origin, 1, j)))

\* C6: for every String entry the length field written by serializeArray
\* equals the number of payload bytes written after it, so the decoder
\* reads exactly the string's bytes and stays aligned on the next entry.
C6_StringLengthIsByteCount ==
    src = "entries" =>
        /\ \A j \in 1..Len(origin) :
              origin[j].type = "string" =>
                  /\ getUint32(data, RecordStart(j) + 4).value
                        = U32(RecordEnd(j) - RecordStart(j) - 8)
                  /\ SubSeq(data, RecordStart(j) + 9, RecordEnd(j))
                        = encoder_encode(origin[j].value)
        /\ Finished =>
              /\ dec.status = "done"
              /\ Len(dec.entries) = Len(origin)
              /\ \A j \in 1..Len(origin) :
                    /\ dec.entries[j].type = origin[j].type
                    /\ origin[j].type = "string" =>
                          dec.entries[j].value
                              = decoder_decode(encoder_encode(origin[j].value))

C6_Witness ==
    /\ src = "entries" /\ Len(origin) = 2 /\ Finished
    /\ origin[1] = StringEntry(<<65, 20013>>)
    /\ origin[2] = StringEntry(<<352, 322>>)

\* C7 as stated: the buffer 00000002 00000001 0000002A 00000002 00000003
\* 414243 decodes to [Integer(42), String("ABC")] and encoding that
\* sequence gives the same bytes.
C7_ExampleAsPrinted ==
    data = BigEndianExample =>
        /\ Finished => (dec.status = "done" /\ dec.entries = ExampleEntries)
        /\ pc = "reencoded" => reenc = data

\* C7 amended: the buffer 02000000 01000000 2A000000 02000000 03000000
\* 414243 (every 4-byte field little-endian) decodes to [Integer(42),
\* String("ABC")] and encoding the decoded sequence gives the same bytes.
C7_ExampleLittleEndian ==
    data = LittleEndianExample =>
        /\ Finished => (dec.status = "done" /\ dec.entries = ExampleEntries)
        /\ pc = "reencoded" => reenc = data

C7_Witness ==
    data = LittleEndianExample /\ src = "bytes" /\ pc = "reencoded"

\* ========================================================= document model
\* files a document is opened from: an untitled document reads as the empty
\* byte array, the others hold what serializeArray wrote
InitDocs ==
    { << >>,
      << IntEntry(42), StringEntry(<<65, 66, 67>>), BoolEntry(TRUE) >>,
      << DoubleEntry(Dec(15, 1)) >>,
      << IntEntry(-1), DoubleEntry(Dec(-25, 1)) >> }
InitFiles == { << >> } \cup { serializeArray(es) : es \in InitDocs }

\* type codes and texts the webview sends; 5 is no ValueType
TypeCodes == 1..5
Texts ==
    { << >>, <<32, 116, 114, 117, 101, 32>>, <<45, 55, 46, 57>>,
      <<48, 46, 48, 48, 48, 51>>, <<49, 46, 50, 51, 52, 53, 54>>, Str_Infinity }
\* index lists of remove-entries: distinct indices in every order, and
\* lists with a repeated, a negative or a too large index
Distinct(q) == \A i, j \in 1..Len(q) : i # j => q[i] # q[j]
RemoveArgs ==
    { q \in SeqsUpTo(0..(MaxEntries - 1), MaxRemove) : Distinct(q) }
    \cup { <<0, 0>>, <<-1>>, <<MaxEntries>> }

\* ArrDocument.create: the constructor decodes the file that was read
Init ==
    /\ rev = "scalar"
    /\ src = "bytes"
    /\ origin = << >>
    /\ data \in InitFiles
    /\ pc = "decode"
    /\ dec = deserializeArray(data, rev)
    /\ dec.status = "done"
    /\ reenc = << >>
    /\ sawUnknownTag = FALSE
    /\ sawShortField = FALSE
    /\ _entries = dec.entries
    /\ edits = << >>
    /\ cursor = 0
    /\ fired = << >>
    /\ threw = FALSE
    /\ trail = NoTrail
    /\ issued = 0
    /\ request = NoRequest
    /\ scheme = "file"
    /\ limit = MaxEdits
    /\ NoConversion

\* the handler threw before it changed anything
Failed ==
    /\ fired' = << >>
    /\ threw' = TRUE
    /\ trail' = [trail EXCEPT !.phase = "other"]
    /\ UNCHANGED <<_entries, edits, cursor, issued>>

\* the handler returned early
Returned ==
    /\ fired' = << >>
    /\ threw' = FALSE
    /\ trail' = [trail EXCEPT !.phase = "other"]
    /\ UNCHANGED <<_entries, edits, cursor, issued>>

\* the handler changed the entries to es, fired the edit and then the
\* content change; the editor drops the undone edits and keeps this one
Recorded(es, edit, cmd, valid, indices) ==
    /\ _entries' = es
    /\ edits' = Append(SubSeq(edits, 1, cursor), edit)
    /\ cursor' = cursor + 1
    /\ issued' = issued + 1
    /\ fired' = <<EditEvent(edit.label)>> \o FireContent(es)
    /\ threw' = ~Displayable(es)
    /\ trail' = [cmd |-> cmd, valid |-> valid, indices |-> indices,
                 before |-> _entries, after |-> es, phase |-> "cmd"]

addEntry(type) ==
    /\ issued < limit
    /\ request' = [NoRequest EXCEPT !.type = "add-entry", !.code = type]
    /\ Len(_entries) < MaxEntries
    /\ LET addedEntry == convertEntry(StringEntry(<< >>), type)
       IN  IF ~addedEntry.ok THEN Failed
           ELSE Recorded(Append(_entries, addedEntry.entry),
                         AddEdit(addedEntry.entry), "add", TRUE, << >>)
    /\ UNCHANGED <<codecVars, convVars, scheme, limit>>

\* a setType without the early return for the entry's own type
setType_noEarlyReturn(index, type) ==
    /\ issued < limit
    /\ request' = [NoRequest EXCEPT !.type = "set-type", !.index = index, !.code = type]
    /\ LET backupValue   == At(_entries, index)
           modifiedValue == convertEntry(backupValue, type)
       IN  IF getValueType(backupValue) = 0 THEN Failed
           ELSE IF ~modifiedValue.ok THEN Failed
           ELSE Recorded(SetAt(_entries, index, modifiedValue.entry),
                         SetEdit("Convert entry", index, backupValue, modifiedValue.entry),
                         "setType", TRUE, <<index>>)
    /\ UNCHANGED <<codecVars, convVars, scheme, limit>>

setType(index, type) ==
    /\ issued < limit
    /\ request' = [NoRequest EXCEPT !.type = "set-type", !.index = index, !.code = type]
    /\ LET backupValue   == At(_entries, index)
           modifiedValue == convertEntry(backupValue, type)
       IN  IF getValueType(backupValue) = 0 THEN Failed
           ELSE IF type = getValueType(backupValue) THEN Returned
           ELSE IF ~modifiedValue.ok THEN Failed
           ELSE Recorded(SetAt(_entries, index, modifiedValue.entry),
                         SetEdit("Convert entry", index, backupValue, modifiedValue.entry),
                         "setType", TRUE, <<index>>)
    /\ UNCHANGED <<codecVars, convVars, scheme, limit>>

setValue(index, value) ==
    /\ issued < limit
    /\ request' = [NoRequest EXCEPT !.type = "set-value", !.index = index, !.value = value]
    /\ LET backupValue   == At(_entries, index)
           currentType   == getValueType(backupValue)
           modifiedValue == convertEntry(StringEntry(value), currentType)
       IN  IF currentType = 0 \/ ~modifiedValue.ok THEN Failed
           ELSE IF backupValue = modifiedValue.entry
                   /\ makeStringEntry(backupValue).entry.value = value
                THEN Returned
           ELSE Recorded(SetAt(_entries, index, modifiedValue.entry),
                         SetEdit("Set entry value", index, backupValue, modifiedValue.entry),
                         "setValue", TRUE, <<index>>)
    /\ UNCHANGED <<codecVars, convVars, scheme, limit>>

\* the indices are distinct and each names an entry
ValidIndices(indices, es) ==
    /\ \A i \in 1..Len(indices) : indices[i] >= 0 /\ indices[i] < Len(es)
    /\ Distinct(indices)

removeEntries(given) ==
    /\ issued < limit
    /\ request' = [NoRequest EXCEPT !.type = "remove-entries", !.indices = given]
    /\ LET indices       == toSorted(given)
           backupEntries == [i \in 1..Len(indices) |-> At(_entries, indices[i])]
       IN  Recorded(spliceOut(_entries, toReversed(indices)),
                    RemoveEdit(indices, backupEntries),
                    "remove", ValidIndices(given, _entries), given)
    /\ UNCHANGED <<codecVars, convVars, scheme, limit>>

clearEntries ==
    /\ issued < limit
    /\ request' = [NoRequest EXCEPT !.type = "clear-entries"]
    /\ Recorded(<< >>, ClearEdit(_entries), "clear", TRUE, << >>)
    /\ UNCHANGED <<codecVars, convVars, scheme, limit>>

\* the editor runs the undo closure of the last applied edit
Undo ==
    /\ cursor > 0
    /\ LET es == undo(edits[cursor], _entries)
       IN  /\ Len(es) <= MaxEntries
           /\ _entries' = es
           /\ fired' = FireContent(es)
           /\ threw' = ~Displayable(es)
    /\ cursor' = cursor - 1
    /\ request' = [NoRequest EXCEPT !.type = "undo"]
    /\ trail' = [trail EXCEPT !.phase = IF trail.phase = "cmd" THEN "undone" ELSE "other"]
    /\ UNCHANGED <<edits, issued>>
    /\ UNCHANGED <<codecVars, convVars, scheme, limit>>

\* the editor runs the redo closure of the first undone edit
Redo ==
    /\ cursor < Len(edits)
    /\ LET es == redo(edits[cursor + 1], _entries)
       IN  /\ Len(es) <= MaxEntries
           /\ _entries' = es
           /\ fired' = FireContent(es)
           /\ threw' = ~Displayable(es)
    /\ cursor' = cursor + 1
    /\ request' = [NoRequest EXCEPT !.type = "redo"]
    /\ trail' = [trail EXCEPT !.phase = IF trail.phase = "undone" THEN "redone" ELSE "other"]
    /\ UNCHANGED <<edits, issued>>
    /\ UNCHANGED <<codecVars, convVars, scheme, limit>>

Next ==
    \/ \E type \in TypeCodes : addEntry(type)
    \/ \E index \in 0..Len(_entries), type \in TypeCodes : setType(index, type)
    \/ \E index \in 0..Len(_entries), value \in Texts : setValue(index, value)
    \/ \E given \in RemoveArgs : removeEntries(given)
    \/ clearEntries
    \/ Undo
    \/ Redo

Spec == Init /\ [][Next]_vars

\* -------------------------------------------------------- document claims
Commands == {"add", "setType", "setValue", "remove", "clear"}

\* C8: each command add, setType, setValue, remove and clear that fires an
\* edit, in any document state and with any arguments, leaves an undo that,
\* run right after the command, restores the entry sequence held before the
\* command, and a redo that, run right after that undo, restores the
\* sequence held after the command.
C8_UndoThenRedo ==
    (trail.cmd \in Commands) =>
        /\ trail.phase = "cmd" =>
              (cursor >= 1 /\ fired # << >> /\ fired[1].kind = "edit"
               /\ _entries = trail.after)
        /\ trail.phase = "undone" => _entries = trail.before
        /\ trail.phase = "redone" => _entries = trail.after

\* the entries of es at the positions (from 0) that are not in S, in order
RECURSIVE KeepOthers(_, _, _)
KeepOthers(es, S, position) ==
    IF es = << >> THEN << >>
    ELSE (IF position \in S THEN << >> ELSE <<es[1]>>)
         \o KeepOthers(Tail(es), S, position + 1)

Range(q) == { q[i] : i \in 1..Len(q) }

\* C9: removeEntries with distinct valid indices, in any order, leaves the
\* entries at the other positions in their order; its undo restores the
\* original sequence; its redo yields the reduced sequence again.
C9_RemoveUndoRedo ==
    (trail.cmd = "remove" /\ trail.valid) =>
        LET reduced == KeepOthers(trail.before, Range(trail.indices), 0)
        IN  /\ trail.phase = "cmd" => _entries = reduced
            /\ trail.phase = "undone" => _entries = trail.before
            /\ trail.phase = "redone" => _entries = reduced

\* indices {0, 2}, given as 2, 0, removed from three entries
C9_Witness ==
    /\ trail.cmd = "remove" /\ trail.valid /\ trail.phase = "redone"
    /\ trail.indices = <<2, 0>>
    /\ Len(trail.before) = 3
    /\ _entries = <<trail.before[2]>>

\* C10: in every state reachable by commands and their undo / redo,
\* whatever type codes and indices the commands carry, every element of the
\* entry sequence is an Integer, a String, a Boolean or a Double.
C10_EveryEntryTyped ==
    \A i \in 1..Len(_entries) :
        _entries[i].type \in {"int", "string", "bool", "double"}

\* ======================================================= single conversions
\* values handed to a conversion: every kind, texts that are and are not
\* numbers or truth values, doubles on and off the 1/10000 grid
ConvInts == { INT32_MIN, -1, 0, 1, 2, 42 }
ConvTexts ==
    { <<>>,
      <<49>>,
      <<48>>,
      <<32, 49, 32>>,
      <<84, 82, 85, 69>>,
      <<32, 116, 114, 117, 101, 32>>,
      <<116, 82, 117, 69, 9>>,
      <<116, 114, 117, 101, 120>>,
      <<84, 32, 82, 85, 69>>,
      <<110, 111, 116, 32, 97, 32, 110, 117, 109, 98, 101, 114>>,
      <<45, 55, 46, 57>>,
      <<49, 46, 50, 51, 52, 53, 54>>,
      <<73, 110, 102, 105, 110, 105, 116, 121>>,
      <<48, 120, 49, 70>>,
      <<49, 50, 97, 98, 99>> }
ConvDoubles ==
    { Dec(0, 0), Dec(5, 1), Dec(1, 0), Dec(-25, 1), Dec(3, 4),
      Dec(123456, 5), Dec(-123456, 5), Dec(5, 5), Dec(-99999, 5),
      TowardZero(Dec(37, 4)), TowardZero(Dec(-37, 4)), TowardZero(Dec(2, 0)) }
ConvValues ==
    { IntEntry(v) : v \in ConvInts }
    \cup { StringEntry(t) : t \in ConvTexts }
    \cup { BoolEntry(b) : b \in BOOLEAN }
    \cup { DoubleEntry(d) : d \in ConvDoubles }

\* the codec variables while no file is decoded
NoCodec ==
    /\ rev = "scalar"
    /\ src = "bytes"
    /\ origin = << >>
    /\ data = << >>
    /\ pc = "init"
    /\ dec = Idle
    /\ reenc = << >>
    /\ sawUnknownTag = FALSE
    /\ sawShortField = FALSE

InitEntry ==
    /\ cValue \in ConvValues
    /\ cTarget \in TypeCodes
    /\ cResult = Throws
    /\ cPc = "init"
    /\ NoCodec
    /\ NoDocument

\* convertEntry(cValue, cTarget) of arrEditor.ts
Convert ==
    /\ cPc = "init"
    /\ cResult' = convertEntry(cValue, cTarget)
    /\ cPc' = "converted"
    /\ UNCHANGED <<cValue, cTarget, codecVars, docVars>>

\* new ArrEntry(...).switchType(type) of the webview
SwitchType ==
    /\ cPc = "init"
    /\ cResult' = switchType(cValue, TypeName(cTarget))
    /\ cPc' = "switched"
    /\ UNCHANGED <<cValue, cTarget, codecVars, docVars>>

\* saveAs of the one-entry document [cValue], then the constructor's decode
\* of the file written
Reopen ==
    /\ cPc = "init"
    /\ \E d \in {deserializeArray(serializeArray(<<cValue>>), rev)} :
          cResult' = IF d.status = "done" /\ Len(d.entries) = 1
                     THEN Made(d.entries[1]) ELSE Throws
    /\ cPc' = "reopened"
    /\ UNCHANGED <<cValue, cTarget, codecVars, docVars>>

NextEntry == Convert \/ SwitchType \/ Reopen

SpecEntry == InitEntry /\ [][NextEntry]_vars

\* ---------------------------------------------------- conversion claims
KnownTypeCodes ==
    {ValueType_INTEGER, ValueType_STRING, ValueType_BOOL, ValueType_DOUBLE}

\* C11: a request to add an entry of, or to convert an entry to, a type
\* outside the four known kinds fails for that call only: the handler
\* throws, the entry sequence and the recorded edits stay as they were and
\* no edit event and no content-change event is fired; the webview's
\* switchType throws for such a type for every entry of the document.
C11_InvalidTargetFails ==
    [][ (request'.type \in {"add-entry", "set-type"}
         /\ request'.code \notin KnownTypeCodes)
        => /\ threw'
           /\ fired' = << >>
           /\ _entries' = _entries
           /\ edits' = edits
           /\ cursor' = cursor
           /\ \A i \in 1..Len(_entries) :
                 _entries[i] # Undefined
                     => ~switchType(_entries[i], TypeName(request'.code)).ok ]_vars

C11_Witness ==
    /\ request.type = "set-type" /\ request.index = 1 /\ request.code = 5
    /\ Len(_entries) = 3
    /\ threw /\ fired = << >>

\* C12: in every document state each Double entry holds a value rounded
\* to 4 decimal places (a multiple of 1/10000), the value the fixed-point
\* coercion of the mutation commands leaves.
C12_DoublesOnGrid ==
    \A i \in 1..Len(_entries) :
        _entries[i].type = "double" => FourDecimals(_entries[i].value)

\* a finite double that is not a multiple of 1/10000
MoreThanFourDecimals(d) == ~IsInfinite(d) /\ d.m # 0 /\ (d.e > 4 \/ d.ulps = 1)

\* such a double truncated toward zero to 4 decimal places
TruncatedToFour(d) ==
    LET mag  == IF d.e > 4 THEN Abs(d.m) \div Pow10(d.e - 4)
                ELSE Abs(d.m) * Pow10(4 - d.e) - 1
    IN  Dec(IF d.m < 0 THEN 0 - mag ELSE mag, 4)

\* C13: writing and reading back a Double with more than 4 decimal digits
\* returns it truncated toward zero to 4 decimals (1.23456 gives 1.2345,
\* -1.23456 gives -1.2345), never the next multiple of 1/10000 away from
\* zero.
C13_EncodingTruncates ==
    (cPc = "reopened" /\ cValue.type = "double" /\ MoreThanFourDecimals(cValue.value))
        => cResult = Made(DoubleEntry(TruncatedToFour(cValue.value)))

\* C14: converting a text string to Integer or to Double never fails: the
\* result is an entry of the target type, and text that does not parse as
\* a number gives Integer 0 or Double 0.0.
C14_TextToNumberNeverFails ==
    (cPc = "converted" /\ cValue.type = "string"
        /\ cTarget \in {ValueType_INTEGER, ValueType_DOUBLE})
        => /\ cResult.ok
           /\ cResult.entry.type = TypeName(cTarget)
           /\ parseFloat(cValue.value).nan
                => cResult.entry.value = (IF cTarget = ValueType_INTEGER THEN 0 ELSE Dec(0, 0))

\* C15: converting an Integer or a Double to Boolean gives true exactly
\* when the numeric value is not 0, in the extension host's convertEntry
\* and in the webview's switchType.
C15_NumberToBoolean ==
    (cPc \in {"converted", "switched"} /\ cValue.type \in {"int", "double"}
        /\ cTarget = ValueType_BOOL)
        => cResult = Made(BoolEntry(IF cValue.type = "int" THEN cValue.value # 0
                                    ELSE cValue.value.m # 0))

\* a file holding one Boolean record whose payload is the 32-bit value n
BoolRecord(n) == << 1, 0, 0, 0, ValueType_BOOL, 0, 0, 0 >> \o Int32Bytes(n)

\* C16: one Boolean policy: converting Integer(n) to Boolean gives the
\* truth value that decoding a Boolean record with the raw payload n
\* gives, in either revision of the decoder.
C16_OneBooleanPolicy ==
    (cPc = "converted" /\ cValue.type = "int" /\ cTarget = ValueType_BOOL)
        => \A r \in Revisions :
              LET d == deserializeArray(BoolRecord(cValue.value), r)
              IN  /\ d.status = "done"
                  /\ cResult = Made(d.entries[1])

\* ------------------------------------------------------- Boolean decoding
\* the decoder stands in the loop before a whole record with the tag 3
AtBoolRecord ==
    /\ pc = "decode"
    /\ dec.status = "loop"
    /\ Below(dec.i, dec.count)
    /\ dec.offset + 8 <= Len(data)
    /\ SubSeq(data, dec.offset + 1, dec.offset + 4) = << ValueType_BOOL, 0, 0, 0 >>

\* C17: decoding a Boolean record (tag 3) appends true exactly when the
\* four payload bytes are 01 00 00 00, and false for payload 0 and for
\* every other payload.
C17_TrueIffPayloadIsOne ==
    [][ AtBoolRecord
        => /\ dec'.status = "loop"
           /\ dec'.offset = dec.offset + 8
           /\ dec'.entries =
                Append(dec.entries,
                       BoolEntry(SubSeq(data, dec.offset + 5, dec.offset + 8)
                                    = << 1, 0, 0, 0 >>)) ]_vars

\* a Boolean record with the payload 0xFFFFFFFF has been decoded as false
C17_Witness ==
    /\ pc = "decode"
    /\ Len(data) >= 12
    /\ SubSeq(data, 5, 12) = << ValueType_BOOL, 0, 0, 0, 255, 255, 255, 255 >>
    /\ dec.i = 1
    /\ dec.offset = 12
    /\ dec.entries = << BoolEntry(FALSE) >>

\* ---------------------------------------------------- identity conversion
\* C18: converting an entry of one of the four kinds to its own type
\* returns the entry (convertEntry of the extension host and switchType of
\* the webview), and a set-type request that names the current type of
\* the entry it addresses leaves the sequence and the undo stack unchanged
\* and fires no event.
C18_IdentityConversion ==
    [][ /\ \A e \in ConvValues :
              /\ convertEntry(e, getValueType(e)) = Made(e)
              /\ switchType(e, e.type) = Made(e)
        /\ LET e == At(_entries, request'.index)
           IN  (request'.type = "set-type" /\ getValueType(e) # 0
                   /\ request'.code = getValueType(e))
                  => /\ convertEntry(e, request'.code) = Made(e)
                     /\ switchType(e, e.type) = Made(e)
                     /\ _entries' = _entries
                     /\ edits' = edits
                     /\ cursor' = cursor
                     /\ fired' = << >>
                     /\ ~threw' ]_vars

\* a set-type request for the Double entry at 1 of a two-entry document,
\* naming Double, has returned
C18_Witness ==
    /\ request.type = "set-type"
    /\ request.index = 1
    /\ request.code = ValueType_DOUBLE
    /\ Len(_entries) = 2
    /\ getValueType(At(_entries, 1)) = ValueType_DOUBLE
    /\ fired = << >>
    /\ ~threw
    /\ edits = << >>

\* ------------------------------------------------------ text to Boolean
\* t is the word TRUE in any letter case between leading and trailing
\* white space
IsTrueWord(t) ==
    \E i \in 1..(Len(t) - 3) :
        /\ \A k \in 1..(i - 1) : t[k] \in WhiteSpaceChars
        /\ \A k \in (i + 4)..Len(t) : t[k] \in WhiteSpaceChars
        /\ t[i] \in {84, 116}
        /\ t[i + 1] \in {82, 114}
        /\ t[i + 2] \in {85, 117}
        /\ t[i + 3] \in {69, 101}

\* C19: converting a string to Boolean gives true exactly when the string
\* is "1" or is TRUE in any letter case with white space around it, and
\* false for every other string ("0", the empty string, " 1 ", "truex"),
\* in convertEntry and in the webview's switchType.
C19_TextToBoolean ==
    (cPc \in {"converted", "switched"} /\ cValue.type = "string"
        /\ cTarget = ValueType_BOOL)
        => cResult = Made(BoolEntry(cValue.value = << 49 >> \/ IsTrueWord(cValue.value)))

\* " true " has been converted to Boolean true by convertEntry
C19_Witness ==
    /\ cPc = "converted"
    /\ cValue = StringEntry(<< 32, 116, 114, 117, 101, 32 >>)
    /\ cTarget = ValueType_BOOL
    /\ cResult = Made(BoolEntry(TRUE))

\* ------------------------------------------------------------- setValue
\* C20: a set-value request for an entry re-parses the text as the entry's
\* current type: afterwards the entry at the index is the conversion of
\* the text to the type the entry had, so it has the same type, and every
\* other entry is unchanged.
C20_SetValueReparses ==
    [][ LET e == At(_entries, request'.index)
        IN  (request'.type = "set-value" /\ getValueType(e) # 0)
               => LET c == convertEntry(StringEntry(request'.value), getValueType(e))
                  IN  /\ c.ok
                      /\ _entries' = SetAt(_entries, request'.index, c.entry)
                      /\ getValueType(At(_entries', request'.index)) = getValueType(e) ]_vars

\* -------------------------------------------------------- display strings
\* t is digits, a dot and exactly four digits, with an optional minus sign
FourPlaces(t) ==
    LET from == IF t # << >> /\ t[1] = Char_Minus THEN 2 ELSE 1
    IN  /\ Len(t) >= from + 5
        /\ t[Len(t) - 4] = Char_Dot
        /\ \A k \in from..Len(t) : k # Len(t) - 4 => IsDigit(t[k])

\* t is the decimal numeral of the integer n
NumeralOf(t, n) ==
    LET from == IF n < 0 THEN 2 ELSE 1
    IN  /\ Len(t) >= from
        /\ n < 0 => t[1] = Char_Minus
        /\ \A k \in from..Len(t) : IsDigit(t[k])
        /\ Len(t) > from => t[from] # Char_0
        /\ Abs(n) \div 10 = NatOfDigits(t, from, Len(t) - 1)
        /\ Abs(n) % 10 = t[Len(t)] - Char_0

\* t is the display string the specification gives for the entry e
DisplayOf(e, t) ==
    CASE e.type = "int" -> NumeralOf(t, e.value)
      [] e.type = "double" ->
            /\ FourPlaces(t)
            /\ FourDecimals(e.value)
                  => LET from == IF e.value.m < 0 THEN 2 ELSE 1
                     IN  /\ (e.value.m < 0) = (t[1] = Char_Minus)
                         /\ NatOfDigits(t, from, Len(t) - 5) * 10000
                               + NatOfDigits(t, Len(t) - 3, Len(t))
                            = Abs(e.value.m) * Pow10(4 - e.value.e)
      [] e.type = "bool" -> t = (IF e.value THEN Str_TRUE ELSE Str_FALSE)
      [] e.type = "string" -> t = e.value
      [] OTHER -> FALSE

\* C21: every content-change event carries, for each entry of the
\* document, the entry's own type and its display string: the decimal
\* digits of an Integer, a Double with exactly 4 decimal places, TRUE or
\* FALSE for a Boolean, and a String unchanged.
C21_DisplayStrings ==
    \A k \in 1..Len(fired) :
        fired[k].kind = "content"
            => /\ Len(fired[k].entries) = Len(_entries)
               /\ \A i \in 1..Len(_entries) :
                     /\ fired[k].entries[i].type = getValueType(_entries[i])
                     /\ DisplayOf(_entries[i], fired[k].entries[i].value)

\* ---------------------------------------------------- the empty sequence
\* C22: encoding the empty sequence of entries gives exactly the 4 bytes
\* 00 00 00 00 (the count 0 and nothing else), for a document that was
\* created empty and for one whose decode returned no entry.
C22_EmptyEncodesToZeroCount ==
    /\ (src = "entries" /\ origin = << >>) => data = << 0, 0, 0, 0 >>
    /\ (pc = "reencoded" /\ dec.entries = << >>) => reenc = << 0, 0, 0, 0 >>

\* a buffer with the count 0 and trailing bytes was decoded to no entry
\* and encoded again
C22_Witness ==
    /\ pc = "reencoded"
    /\ src = "bytes"
    /\ Len(data) > 4
    /\ dec.entries = << >>
    /\ reenc = << 0, 0, 0, 0 >>

\* ------------------------------------------------------------------ events
CommandRequests ==
    {"add-entry", "set-type", "set-value", "remove-entries", "clear-entries"}

\* C23: a command that changes the document fires exactly one edit event,
\* which the editor records with its undo and redo actions, and then
\* exactly one content-change event with the entries after the command;
\* an undo or a redo fires exactly one content-change event with the
\* entries it produced.
C23_EventsFollowTheDocument ==
    [][ /\ (request'.type \in CommandRequests /\ _entries' # _entries)
              => /\ Len(fired') = 2
                 /\ fired'[1].kind = "edit"
                 /\ fired'[2] = ContentEvent(_entries')
                 /\ cursor' = cursor + 1
                 /\ Len(edits') = cursor'
        /\ (request'.type \in {"undo", "redo"})
              => fired' = << ContentEvent(_entries') >> ]_vars

\* ------------------------------------------------------------ termination
\* C24: deserializeArray ends on every buffer whatever count it declares:
\* a turn of the loop either moves the offset on by at least 4 bytes or
\* ends the call, so there are at most (buffer length / 4) turns, and a
\* count larger than the buffer can hold ends in an error.
C24_DecodeTerminates ==
    /\ [][ (pc = "decode" /\ dec.status = "loop")
              => \/ /\ dec'.status = "loop"
                    /\ dec'.i = dec.i + 1
                    /\ dec'.offset >= dec.offset + 4
                 \/ dec'.status \in {"done", "RangeError", "Error"} ]_vars
    /\ [](pc = "decode" => 4 * dec.i <= Len(data))
    /\ []((pc = "decode" /\ dec.status = "done")
              => dec.count.hi = 0 /\ 4 * dec.count.lo + 4 <= Len(data))

\* a buffer that declares 0xFFFFFFFF records and holds one has ended in a
\* RangeError in the second turn
C24_Witness ==
    /\ pc = "decode"
    /\ dec.count = [hi |-> 1, lo |-> INT32_MAX]
    /\ dec.i = 1
    /\ Len(dec.entries) = 1
    /\ dec.status = "RangeError"

\* ======================================================= command histories
\* A document on which up to MaxHistory commands are run, each with
\* arguments the webview can send for the rows it shows, with undo and
\* redo between them.
HistoryDocs ==
    { << IntEntry(42), DoubleEntry(Dec(15, 1)) >>,
      << StringEntry(<<65, 66>>), BoolEntry(TRUE) >> }
HistoryTexts == { <<45, 55, 46, 57>>, <<32, 116, 114, 117, 101, 32>> }

InitHistory ==
    /\ rev = "scalar"
    /\ src = "bytes"
    /\ origin = << >>
    /\ data \in { serializeArray(es) : es \in HistoryDocs }
    /\ pc = "decode"
    /\ dec = deserializeArray(data, rev)
    /\ dec.status = "done"
    /\ reenc = << >>
    /\ sawUnknownTag = FALSE
    /\ sawShortField = FALSE
    /\ _entries = dec.entries
    /\ edits = << >>
    /\ cursor = 0
    /\ fired = << >>
    /\ threw = FALSE
    /\ trail = NoTrail
    /\ issued = 0
    /\ request = NoRequest
    /\ scheme = "file"
    /\ limit = MaxHistory
    /\ NoConversion

NextHistory ==
    \/ \E type \in TypeCodes : addEntry(type)
    \/ \E index \in 0..Len(_entries), type \in KnownTypeCodes : setType(index, type)
    \/ \E index \in 0..Len(_entries), value \in HistoryTexts : setValue(index, value)
    \/ \E given \in RemoveArgs :
          /\ given # << >>
          /\ ValidIndices(given, _entries)
          /\ removeEntries(given)
    \/ clearEntries
    \/ Undo
    \/ Redo

SpecHistory == InitHistory /\ [][NextHistory]_vars

\* C25: undo is correct over whole histories of add, setType, setValue,
\* remove (distinct valid indices) and clear: when every recorded edit has
\* been undone, the entries are those the document was opened with, and
\* when every recorded edit is applied again, they are those the last
\* command left.
C25_UndoOverHistories ==
    /\ cursor = 0 => _entries = dec.entries
    /\ (edits # << >> /\ cursor = Len(edits)) => _entries = trail.after

\* a remove and then an add have both been undone
C25_Witness ==
    /\ Len(edits) = 2
    /\ edits[1].label = "Remove entries"
    /\ edits[2].label = "Add entry"
    /\ cursor = 0
    /\ request.type = "undo"
    /\ _entries = dec.entries

\* ------------------------------------------------------------ value ranges
\* d * 10000 lies in the signed 32-bit range
InFixedPointRange(d) ==
    /\ ~IsInfinite(d)
    /\ IF d.e <= 4 THEN Abs(d.m) <= INT32_MAX \div Pow10(4 - d.e)
       ELSE Abs(d.m) \div Pow10(d.e - 4) <= INT32_MAX

\* C26: in every document state reached through add, setType and setValue
\* each Integer entry lies in the signed 32-bit range and each Double
\* entry times 10000 lies in the signed 32-bit range, so that encoding
\* never wraps a value.
C26_NumbersInRange ==
    \A i \in 1..Len(_entries) :
        /\ _entries[i].type = "int"
              => _entries[i].value >= INT32_MIN /\ _entries[i].value <= INT32_MAX
        /\ _entries[i].type = "double" => InFixedPointRange(_entries[i].value)

\* ------------------------------------------------------ byte round trip
\* the 32-bit little-endian word at offset is the number n < 128
WordIs(b, offset, n) ==
    /\ offset + 4 <= Len(b)
    /\ SubSeq(b, offset + 1, offset + 4) = << n, 0, 0, 0 >>

\* exactly n well-formed records lie between offset and the end of b
RECURSIVE WellFormedRecords(_, _, _)
WellFormedRecords(b, offset, n) ==
    IF n = 0 THEN offset = Len(b)
    ELSE /\ offset + 8 <= Len(b)
         /\ \/ /\ WordIs(b, offset, ValueType_INTEGER) \/ WordIs(b, offset, ValueType_DOUBLE)
               /\ WellFormedRecords(b, offset + 8, n - 1)
            \/ /\ WordIs(b, offset, ValueType_BOOL)
               /\ WordIs(b, offset + 4, 0) \/ WordIs(b, offset + 4, 1)
               /\ WellFormedRecords(b, offset + 8, n - 1)
            \/ /\ WordIs(b, offset, ValueType_STRING)
               /\ \E length \in 0..(Len(b) - offset - 8) :
                     /\ WordIs(b, offset + 4, length)
                     /\ WellFormedRecords(b, offset + 8 + length, n - 1)

WellFormed(b) ==
    \E count \in 0..(Len(b) \div 8) :
        WordIs(b, 0, count) /\ WellFormedRecords(b, 4, count)

\* C27: for every well-formed buffer b (count equal to the number of
\* records, every tag in 1..4, every Boolean payload 0 or 1, string
\* lengths matching their payloads, no trailing bytes),
\* serializeArray(deserializeArray(b)) is byte for byte b.
C27_ByteRoundTrip ==
    (pc = "reencoded" /\ WellFormed(data)) => reenc = data

\* ============================================================ editor model
\* A document in its editor: opened from its file, or, for an untitled
\* document, from the backup VS Code kept; the webview reports 'ready' and
\* sends set-value requests, and VS Code calls revert.  The variable data
\* holds the content read last (by create, then by revert).

\* postMessage(webviewPanel, 'init', { entries })
InitMessage(entries) == [kind |-> "init", label |-> "", entries |-> entries]

EditorDocs ==
    { << DoubleEntry(Dec(15, 1)), IntEntry(42) >>,
      << StringEntry(<<65, 66>>), BoolEntry(FALSE) >> }
EditorTexts == { <<49, 46, 50, 51, 52, 53, 54>>, <<32, 116, 114, 117, 101, 32>> }

\* what revert may find on disk: an encoded document, the empty file, a
\* file that declares two records and holds one, a file with the tag 9
DiskContents ==
    { serializeArray(<< IntEntry(7) >>),
      << >>,
      << 2, 0, 0, 0, 1, 0, 0, 0, 42, 0, 0, 0 >>,
      << 1, 0, 0, 0, 9, 0, 0, 0, 0, 0, 0, 0 >> }

\* ArrDocument.create(uri, backupId): data is the content of the backup if
\* there is one and of the file otherwise; an untitled document without a
\* backup is read as the empty buffer, which the constructor cannot decode
InitEditor ==
    /\ rev = "scalar"
    /\ src = "bytes"
    /\ origin = << >>
    /\ scheme \in {"file", "untitled"}
    /\ data \in { serializeArray(es) : es \in EditorDocs }
    /\ pc = "decode"
    /\ dec = deserializeArray(data, rev)
    /\ dec.status = "done"
    /\ reenc = << >>
    /\ sawUnknownTag = FALSE
    /\ sawShortField = FALSE
    /\ _entries = dec.entries
    /\ edits = << >>
    /\ cursor = 0
    /\ fired = << >>
    /\ threw = FALSE
    /\ trail = NoTrail
    /\ issued = 0
    /\ request = NoRequest
    /\ limit = MaxHistory
    /\ NoConversion

\* resolveCustomEditor: the listener for the webview's 'ready'
Ready ==
    /\ request' = [NoRequest EXCEPT !.type = "ready"]
    /\ IF scheme = "untitled"
       THEN fired' = << InitMessage(<< >>) >> /\ threw' = FALSE
       ELSE IF Displayable(_entries)
       THEN fired' = << InitMessage(WebviewEntries(_entries)) >> /\ threw' = FALSE
       ELSE fired' = << >> /\ threw' = TRUE
    /\ trail' = [trail EXCEPT !.phase = "other"]
    /\ UNCHANGED <<_entries, edits, cursor, issued, scheme, limit>>
    /\ UNCHANGED <<codecVars, convVars>>

\* a revert that keeps what was decoded before the decode failed
revert_keepsPartial(disk) ==
    /\ request' = [NoRequest EXCEPT !.type = "revert"]
    /\ \E diskContent \in {IF scheme = "untitled" THEN << >> ELSE disk} :
       \E d \in {deserializeArray(diskContent, rev)} :
          /\ data' = diskContent
          /\ _entries' = d.entries
          /\ IF d.status = "done"
             THEN fired' = FireContent(d.entries) /\ threw' = FALSE
             ELSE fired' = << >> /\ threw' = TRUE
    /\ trail' = [trail EXCEPT !.phase = "other"]
    /\ UNCHANGED <<edits, cursor, issued, scheme, limit>>
    /\ UNCHANGED <<rev, src, origin, pc, dec, reenc, sawUnknownTag, sawShortField>>
    /\ UNCHANGED convVars

\* ArrDocument.revert, with disk the content of the file at that moment
revert(disk) ==
    /\ request' = [NoRequest EXCEPT !.type = "revert"]
    /\ \E diskContent \in {IF scheme = "untitled" THEN << >> ELSE disk} :
       \E d \in {deserializeArray(diskContent, rev)} :
          /\ data' = diskContent
          /\ IF d.status = "done"
             THEN /\ _entries' = d.entries
                  /\ fired' = FireContent(d.entries)
                  /\ threw' = FALSE
             ELSE /\ _entries' = _entries
                  /\ fired' = << >>
                  /\ threw' = TRUE
    /\ trail' = [trail EXCEPT !.phase = "other"]
    /\ UNCHANGED <<edits, cursor, issued, scheme, limit>>
    /\ UNCHANGED <<rev, src, origin, pc, dec, reenc, sawUnknownTag, sawShortField>>
    /\ UNCHANGED convVars

\* the text the webview shows in the value cell of row index
CellText(index) == makeStringEntry(At(_entries, index)).entry.value

NextEditor ==
    \/ Ready
    \/ \E disk \in DiskContents : revert(disk)
    \/ \E index \in 0..(Len(_entries) - 1) :
          \E value \in EditorTexts \cup {CellText(index)} : setValue(index, value)

SpecEditor == InitEditor /\ [][NextEditor]_vars

\* C28: when a webview reports 'ready', the 'init' message it receives
\* carries the document's current entries, for every document, an
\* untitled one restored from a backup included.
C28_InitCarriesTheEntries ==
    [][ request'.type = "ready"
           => fired' = << InitMessage(WebviewEntries(_entries)) >> ]_vars

\* C29: a revert whose disk content fails to decode leaves the entries as
\* they were and fires no content-change event; the entries are replaced,
\* by the decoded ones, only when the whole decode succeeded.
C29_FailedRevertKeepsEntries ==
    [][ request'.type = "revert"
           => LET d == deserializeArray(data', rev)
              IN  IF d.status = "done"
                  THEN /\ _entries' = d.entries
                       /\ fired' = << ContentEvent(d.entries) >>
                  ELSE /\ _entries' = _entries
                       /\ fired' = << >>
                       /\ threw' ]_vars

\* a revert read a file that declares two records and holds one: the
\* decode failed after the first, and the two entries of the document stay
C29_Witness ==
    /\ request.type = "revert"
    /\ data = << 2, 0, 0, 0, 1, 0, 0, 0, 42, 0, 0, 0 >>
    /\ threw
    /\ fired = << >>
    /\ Len(_entries) = 2
    /\ _entries = dec.entries

\* C30: a set-value request whose text is the display string the document
\* reports for that entry is a no-op for every entry of every type: the
\* entries and the undo stack are unchanged and no event is fired.
C30_UneditedCellIsNoOp ==
    [][ (request'.type = "set-value"
            /\ request'.index >= 0 /\ request'.index < Len(_entries)
            /\ request'.value = CellText(request'.index))
           => /\ _entries' = _entries
              /\ edits' = edits
              /\ cursor' = cursor
              /\ fired' = << >> ]_vars

====
